---------------------------- MODULE Spec2Model ----------------------------
(***************************************************************************)
(* A model of the savings tracker (src/app.py, src/utils/savings_tracker.py).*)
(*                                                                         *)
(* The page is a script that runs top to bottom on every interaction       *)
(* (a "rerun").  The session keeps `history` (the ledger, a table of rows) *)
(* between reruns; a share id adds a CSV file on disk that is re-read at   *)
(* the top of every rerun and rewritten by Save Entry.                     *)
(*                                                                         *)
(* Amounts are whole currency units (the number inputs are integer         *)
(* widgets, app.py 136-147); quotients are kept exact as a numerator and a *)
(* denominator; rounded amounts are integer cents.  Timestamps are integer *)
(* ticks.                                                                  *)
(* A ledger row carries timestamp, goal, monthly_target and current_saved; *)
(* the three derived columns ride along like goal and are left out.        *)
(***************************************************************************)
EXTENDS Integers, Sequences, FiniteSets, TLC

VARIABLES
    \* one session of the page (app.py)
    share_id,           \* whether the URL carries a share id (app.py 29)
    history,            \* st.session_state.history: the ledger
    hist_file,          \* shared_histories/history_<share_id>.csv, or NoFile
    uploaded_hist,      \* the file held by the history uploader, or NoUpload
    pc,                 \* where the current rerun of the script stands
    clicked,            \* the button whose click started this rerun
    now,                \* the clock read by datetime.datetime.now()
    status,             \* the message of the upload block of this rerun
    default_goal,       \* app.py 131
    default_monthly,    \* app.py 133
    cumulative_saved,   \* hist['cumulative_saved'] of Progress by Entry
    edited,             \* the table the last Update History stored, or NoEdit
                        \* once a later append or merge has acted
    \* two sessions opened with one share id
    histories,          \* each session's st.session_state.history
    at,                 \* where each session's rerun stands
    saving,             \* whether the rerun was started by Save Entry
    shared_file,        \* the one history_<share_id>.csv, or NoFile
    clock,              \* the server's clock
    seen,               \* how many writes had happened when a session last loaded
    writes,             \* the Save Entry writes so far, in order
    \* the pure computations, each applied to drawn inputs
    calc,               \* the core calculations and the tracker helpers
    breakdown,          \* the allocation breakdown of one category
    remerge             \* the upload merge applied to a ledger, and applied again

\* ------------------------------------------------------------------ bounds
MaxRows == 2        \* rows of a ledger or of an uploaded file drawn as input
MaxTime == 2        \* the clock runs over 1..MaxTime and every Save Entry advances it

\* ------------------------------------------------------- program constants
DEFAULT_GOAL == 6000
DEFAULT_MONTHLY == 3000
\* DataFrame.sort_values (app.py 66) defaults to kind='quicksort': numpy's
\* quicksort partitions a range only while it spans more than this many
\* places, and insertion-sorts it otherwise.
SMALL_QUICKSORT == 16

\* --------------------------------------------------------------- sequences
Max(a, b) == IF a > b THEN a ELSE b

SeqsUpTo(S, n) == UNION {[1..k -> S] : k \in 0..n}

Swap(t, i, j) == [t EXCEPT ![i] = t[j], ![j] = t[i]]

\* ------------------------------------------------------------- ledger rows
GoalInputs == {DEFAULT_GOAL, 8000}
SavedInputs == {1000, 1500}

Row(ts, g, mt, cs) ==
    [timestamp |-> ts, goal |-> g, monthly_target |-> mt, current_saved |-> cs]

TimeInputs == {1, 2}

RowInputs ==
    {Row(ts, g, DEFAULT_MONTHLY, cs) : ts \in TimeInputs, g \in GoalInputs, cs \in SavedInputs}

\* pd.concat([a, b], ignore_index=True)
Concat(a, b) == a \o b

\* the key of drop_duplicates(subset=['timestamp','current_saved'])
DedupKey(r) == <<r.timestamp, r.current_saved>>

\* .drop_duplicates(subset=[...], keep='first'): a row stays unless an earlier
\* row has its key (the fault of keep='first' for keep='last')
DropDuplicatesFirst(rows) ==
    LET keep == {i \in 1..Len(rows) :
                    \A j \in 1..(i-1) : DedupKey(rows[j]) # DedupKey(rows[i])}
        RECURSIVE Pick(_)
        Pick(i) == IF i > Len(rows) THEN <<>>
                   ELSE (IF i \in keep THEN <<rows[i]>> ELSE <<>>) \o Pick(i+1)
    IN  Pick(1)

\* .drop_duplicates(subset=[...], keep='last'): a row stays unless a later row
\* has its key; the rows that stay keep their order
DropDuplicates(rows) ==
    LET keep == {i \in 1..Len(rows) :
                    \A j \in (i+1)..Len(rows) : DedupKey(rows[j]) # DedupKey(rows[i])}
        RECURSIVE Pick(_)
        Pick(i) == IF i > Len(rows) THEN <<>>
                   ELSE (IF i \in keep THEN <<rows[i]>> ELSE <<>>) \o Pick(i+1)
    IN  Pick(1)

(***************************************************************************)
(* .sort_values('timestamp') with the default kind='quicksort': pandas     *)
(* argsorts the column with numpy's aquicksort (an introsort on an index   *)
(* array): median-of-three Hoare partitioning while a range is wider than  *)
(* SMALL_QUICKSORT, insertion sort below that.  v is the column, t the     *)
(* index array.  The heapsort fallback needs more than 2*floor(log2 n)     *)
(* nested partitions and is out of reach of the row counts modelled here.  *)
(***************************************************************************)
\* insertion sort of t[pl..pr]: the inner loop moves an index left while its
\* value is strictly less, so equal values keep their order
InsertionSort(v, t0, pl, pr) ==
    LET RECURSIVE Shift(_, _, _)
        \* the while loop: slide vi left from position pj
        Shift(t, pj, vi) ==
            IF pj > pl /\ v[vi] < v[t[pj-1]]
            THEN Shift([t EXCEPT ![pj] = t[pj-1]], pj-1, vi)
            ELSE [t EXCEPT ![pj] = vi]
        RECURSIVE Outer(_, _)
        Outer(t, pi) == IF pi > pr THEN t ELSE Outer(Shift(t, pi, t[pi]), pi+1)
    IN  Outer(t0, pl+1)

\* one partition of t[pl..pr]: returns the index array and the pivot's place
Partition(v, t0, pl, pr) ==
    LET pm == pl + ((pr - pl) \div 2)
        t1 == IF v[t0[pm]] < v[t0[pl]] THEN Swap(t0, pm, pl) ELSE t0
        t2 == IF v[t1[pr]] < v[t1[pm]] THEN Swap(t1, pr, pm) ELSE t1
        t3 == IF v[t2[pm]] < v[t2[pl]] THEN Swap(t2, pm, pl) ELSE t2
        vp == v[t3[pm]]
        t4 == Swap(t3, pm, pr-1)
        RECURSIVE Up(_, _)
        Up(t, i) == IF v[t[i]] < vp THEN Up(t, i+1) ELSE i
        RECURSIVE Down(_, _)
        Down(t, j) == IF vp < v[t[j]] THEN Down(t, j-1) ELSE j
        RECURSIVE Loop(_, _, _)
        Loop(t, pi, pj) ==
            LET i == Up(t, pi+1)
                j == Down(t, pj-1)
            IN  IF i >= j THEN [t |-> Swap(t, i, pr-1), pivot |-> i]
                ELSE Loop(Swap(t, i, j), i, j)
    IN  Loop(t4, pl, pr-1)

RECURSIVE QuickSortRange(_, _, _, _)
QuickSortRange(v, t, pl, pr) ==
    IF pr - pl > SMALL_QUICKSORT
    THEN LET p == Partition(v, t, pl, pr)
         IN  QuickSortRange(v, QuickSortRange(v, p.t, pl, p.pivot - 1), p.pivot + 1, pr)
    ELSE InsertionSort(v, t, pl, pr)

\* numpy argsort(kind='quicksort') of column v: the row numbers in sorted order
ArgSort(v) ==
    IF Len(v) = 0 THEN <<>> ELSE QuickSortRange(v, [i \in 1..Len(v) |-> i], 1, Len(v))

\* .sort_values('timestamp').reset_index(drop=True)
SortValues(rows) ==
    LET idx == ArgSort([i \in 1..Len(rows) |-> rows[i].timestamp])
    IN  [i \in 1..Len(rows) |-> rows[idx[i]]]

\* the merge with the fault of keep='first'
MergeKeepFirst(hist, rows) == SortValues(DropDuplicatesFirst(Concat(hist, rows)))

\* the upload path's merge: concat, drop duplicates keeping the last, sort
Merge(hist, rows) == SortValues(DropDuplicates(Concat(hist, rows)))

\* ------------------------------------------------------------ CSV files
HistoryColumns == {"timestamp", "goal", "monthly_target", "current_saved"}

NoFile == [kind |-> "none"]
NoUpload == [kind |-> "none"]

\* a CSV file: its header, its data lines, and whether some line is broken
\* (a line with the wrong number of cells)
Csv(columns, lines, malformed) ==
    [kind |-> "csv", columns |-> columns, lines |-> lines, malformed |-> malformed]

\* DataFrame.to_csv(path, index=False): the header and one line per row
ToCsv(hist) == Csv(HistoryColumns, hist, FALSE)

\* pd.read_csv(f, parse_dates=['timestamp']): raises on a broken line and on a
\* header without the timestamp column, else gives the lines as rows
ReadCsv(f) ==
    IF f.malformed \/ "timestamp" \notin f.columns
    THEN [ok |-> FALSE, rows |-> <<>>]
    ELSE [ok |-> TRUE, rows |-> f.lines]

\* a write that adds the new row to the file's lines instead of replacing
\* them (the fault of to_csv opened with mode='a')
WriteSharedAppending(file, hist) ==
    IF file = NoFile THEN ToCsv(hist)
    ELSE Csv(HistoryColumns, file.lines \o <<hist[Len(hist)]>>, FALSE)

\* to_csv(hist_file, index=False): the file becomes the whole ledger, whatever
\* it held
WriteShared(file, hist) == ToCsv(hist)

\* ------------------------------------------------------- the upload block
\* the block storing what it has concatenated so far when the parse raises
\* (the fault of an assignment made before the step that can fail)
UploadBlockPartial(hist, f) ==
    LET df_up == ReadCsv(f)
    IN  IF df_up.ok
        THEN [history |-> Merge(hist, df_up.rows), status |-> "merged"]
        ELSE [history |-> Concat(hist, f.lines), status |-> "merge_failed"]

\* the try block with its handler: the ledger is assigned once, after the
\* read, the concat, the dedup and the sort have all returned
UploadBlock(hist, f) ==
    LET df_up == ReadCsv(f)
    IN  IF df_up.ok
        THEN [history |-> Merge(hist, df_up.rows), status |-> "merged"]
        ELSE [history |-> hist, status |-> "merge_failed"]

\* --------------------------------------------------------- derived views
\* default_goal: the last ROW's goal, or 6000
DefaultGoal(hist) == IF Len(hist) > 0 THEN hist[Len(hist)].goal ELSE DEFAULT_GOAL

\* default_monthly: the last ROW's monthly_target, or 3000
DefaultMonthly(hist) ==
    IF Len(hist) > 0 THEN hist[Len(hist)].monthly_target ELSE DEFAULT_MONTHLY

\* hist['current_saved'].cumsum(): running totals in ROW order
CumSum(hist) ==
    LET RECURSIVE Total(_)
        Total(i) == IF i = 0 THEN 0 ELSE Total(i-1) + hist[i].current_saved
    IN  [i \in 1..Len(hist) |-> Total(i)]

\* ------------------------------------------------------ the inline editor
DeleteRow(hist, i) == [k \in 1..(Len(hist)-1) |-> IF k < i THEN hist[k] ELSE hist[k+1]]
SetTimestamp(hist, i, ts) == [hist EXCEPT ![i].timestamp = ts]

\* what the data editor hands back for a table: a row deleted, or the first
\* row's timestamp cell retyped
Edits(hist) ==
    {DeleteRow(hist, i) : i \in 1..Len(hist)}
    \cup {SetTimestamp(hist, 1, ts) : ts \in TimeInputs}

NoEdit == [held |-> FALSE, table |-> <<>>]
Held(table) == [held |-> TRUE, table |-> table]

\* ------------------------------------------------------------ the session
FormInputs ==
    {[goal |-> DEFAULT_GOAL, monthly_target |-> DEFAULT_MONTHLY, current_saved |-> 1500],
     [goal |-> 8000, monthly_target |-> 3500, current_saved |-> 1000]}

\* the files a user uploads: an export with one row dated ahead of the
\* session's clock, one with two rows of one date, one with a broken line,
\* one without the timestamp column (the timestamp of its lines is then not
\* in the file)
UploadInputs ==
    {Csv(HistoryColumns, <<Row(2, 8000, 3500, 1000)>>, FALSE),
     Csv(HistoryColumns, <<Row(1, DEFAULT_GOAL, DEFAULT_MONTHLY, 1000),
                           Row(1, DEFAULT_GOAL, DEFAULT_MONTHLY, 1500)>>, FALSE),
     Csv(HistoryColumns, <<Row(1, DEFAULT_GOAL, DEFAULT_MONTHLY, 1500)>>, TRUE),
     Csv(HistoryColumns \ {"timestamp"}, <<Row(1, 8000, 3500, 1500)>>, FALSE)}

raceVars == <<histories, at, saving, shared_file, clock, seen, writes>>
pureVars == <<raceVars, calc, breakdown, remerge>>

sessionVars ==
    <<share_id, history, hist_file, uploaded_hist, pc, clicked, now, status,
      default_goal, default_monthly, cumulative_saved, edited>>

\* app.py 32-36 and the first page load
SessionStart(shared) ==
    /\ share_id = shared
    /\ history = <<>>
    /\ hist_file = NoFile
    /\ uploaded_hist = NoUpload
    /\ pc = "idle"
    /\ clicked = "none"
    /\ now = 1
    /\ status = "none"
    /\ default_goal = DEFAULT_GOAL
    /\ default_monthly = DEFAULT_MONTHLY
    /\ cumulative_saved = <<>>
    /\ edited = NoEdit

\* an interaction starts a rerun of the script: a file put into the uploader
\* or taken out of it, any other widget touched, Save Entry clicked (while
\* the clock is within its bound), or Update History clicked (the button is
\* on the page only under a ledger that holds rows, app.py 191)
Interact ==
    /\ pc = "idle"
    /\ \/ \E f \in UploadInputs : uploaded_hist' = f /\ clicked' = "none"
       \/ uploaded_hist' = NoUpload /\ clicked' = "none"
       \/ UNCHANGED uploaded_hist /\ clicked' = "none"
       \/ UNCHANGED uploaded_hist /\ now <= MaxTime /\ clicked' = "save"
       \/ UNCHANGED uploaded_hist /\ history # <<>> /\ clicked' = "update"
    /\ pc' = "load"
    /\ status' = "none"
    /\ UNCHANGED pureVars
    /\ UNCHANGED <<share_id, history, hist_file, now, default_goal, default_monthly,
                   cumulative_saved, edited>>

\* app.py 44-48: with a share id whose file exists, the ledger is read from it
LoadShared ==
    /\ pc = "load"
    /\ history' = IF share_id /\ hist_file # NoFile
                  THEN ReadCsv(hist_file).rows ELSE history
    /\ pc' = "upload"
    /\ UNCHANGED pureVars
    /\ UNCHANGED <<share_id, hist_file, uploaded_hist, clicked, now, status,
                   default_goal, default_monthly, cumulative_saved, edited>>

\* app.py 60-71
UploadHistory ==
    /\ pc = "upload"
    /\ IF uploaded_hist # NoUpload
       THEN LET r == UploadBlock(history, uploaded_hist)
            IN  /\ history' = r.history
                /\ status' = r.status
                /\ edited' = IF r.status = "merged" THEN NoEdit ELSE edited
       ELSE UNCHANGED <<history, status, edited>>
    /\ pc' = "inputs"
    /\ UNCHANGED pureVars
    /\ UNCHANGED <<share_id, hist_file, uploaded_hist, clicked, now,
                   default_goal, default_monthly, cumulative_saved>>

\* app.py 131-134
Inputs ==
    /\ pc = "inputs"
    /\ default_goal' = DefaultGoal(history)
    /\ default_monthly' = DefaultMonthly(history)
    /\ pc' = "save"
    /\ UNCHANGED pureVars
    /\ UNCHANGED <<share_id, history, hist_file, uploaded_hist, clicked, now, status,
                   cumulative_saved, edited>>

\* app.py 156-172: the new row goes to the END of the ledger, stamped now();
\* with a share id the whole ledger is written over the file
SaveEntry ==
    /\ pc = "save"
    /\ IF clicked = "save"
       THEN \E in \in FormInputs :
              LET new_rec == Row(now, in.goal, in.monthly_target, in.current_saved)
                  appended == Concat(history, <<new_rec>>)
              IN  /\ history' = appended
                  /\ hist_file' = IF share_id THEN WriteShared(hist_file, appended)
                                  ELSE hist_file
                  /\ now' = now + 1
                  /\ edited' = NoEdit
       ELSE UNCHANGED <<history, hist_file, now, edited>>
    /\ pc' = "show"
    /\ UNCHANGED pureVars
    /\ UNCHANGED <<share_id, uploaded_hist, clicked, status, default_goal,
                   default_monthly, cumulative_saved>>

\* app.py 191-218: Update History stores the editor's table, then Progress by
\* Entry shows the running totals; an empty ledger shows neither
ShowHistory ==
    /\ pc = "show"
    /\ IF history # <<>> /\ clicked = "update"
       THEN \E hist_edited \in Edits(history) :
              /\ history' = hist_edited
              /\ edited' = Held(hist_edited)
              /\ cumulative_saved' = CumSum(hist_edited)
       ELSE /\ cumulative_saved' = CumSum(history)
            /\ UNCHANGED <<history, edited>>
    /\ pc' = "idle"
    /\ UNCHANGED pureVars
    /\ UNCHANGED <<share_id, hist_file, uploaded_hist, clicked, now, status,
                   default_goal, default_monthly>>

\* ------------------------------------------------- two sharing sessions
Sessions == {1, 2}

RaceOff ==
    /\ histories = [s \in Sessions |-> <<>>]
    /\ at = [s \in Sessions |-> "off"]
    /\ saving = [s \in Sessions |-> FALSE]
    /\ shared_file = NoFile
    /\ clock = 1
    /\ seen = [s \in Sessions |-> 0]
    /\ writes = <<>>

\* both sessions open the page with the same share id; no file yet
InitRace ==
    /\ histories = [s \in Sessions |-> <<>>]
    /\ at = [s \in Sessions |-> "idle"]
    /\ saving = [s \in Sessions |-> FALSE]
    /\ shared_file = NoFile
    /\ clock = 1
    /\ seen = [s \in Sessions |-> 0]
    /\ writes = <<>>

\* an interaction of session s starts a rerun: Save Entry clicked (while the
\* clock is within its bound), or not
RaceInteract(s) ==
    /\ at[s] = "idle"
    /\ \E click \in BOOLEAN :
          /\ click => clock <= MaxTime
          /\ saving' = [saving EXCEPT ![s] = click]
    /\ at' = [at EXCEPT ![s] = "load"]
    /\ UNCHANGED <<histories, shared_file, clock, seen, writes>>
    /\ UNCHANGED <<sessionVars, calc, breakdown, remerge>>

\* app.py 44-48 in session s
RaceLoad(s) ==
    /\ at[s] = "load"
    /\ histories' = [histories EXCEPT ![s] =
                        IF shared_file # NoFile THEN ReadCsv(shared_file).rows ELSE @]
    /\ seen' = [seen EXCEPT ![s] = Len(writes)]
    /\ at' = [at EXCEPT ![s] = "save"]
    /\ UNCHANGED <<saving, shared_file, clock, writes>>
    /\ UNCHANGED <<sessionVars, calc, breakdown, remerge>>

\* app.py 156-172 in session s: append to the session's ledger, then write
\* the whole ledger over the file
RaceSaveEntry(s) ==
    /\ at[s] = "save"
    /\ IF saving[s]
       THEN \E in \in FormInputs :
              LET new_rec == Row(clock, in.goal, in.monthly_target, in.current_saved)
                  appended == Concat(histories[s], <<new_rec>>)
              IN  /\ histories' = [histories EXCEPT ![s] = appended]
                  /\ shared_file' = WriteShared(shared_file, appended)
                  /\ writes' = Append(writes, [by |-> s, entry |-> new_rec,
                                               seen |-> seen[s]])
                  /\ clock' = clock + 1
       ELSE UNCHANGED <<histories, shared_file, writes, clock>>
    /\ at' = [at EXCEPT ![s] = "idle"]
    /\ UNCHANGED <<saving, seen>>
    /\ UNCHANGED <<sessionVars, calc, breakdown, remerge>>

\* -------------------------------------------------- the core calculations
\* a quotient kept exact: Python's true division of two integers
Divide(n, d) == [num |-> n, den |-> d]
Whole(n) == [num |-> n, den |-> 1]
Less(a, b) == a.num * b.den < b.num * a.den
Same(a, b) == a.num * b.den = b.num * a.den

\* Python's `x or 1`: 1 when x is 0
Or1(x) == IF x = 0 THEN 1 ELSE x

\* max(0, min(p, 1))
Clamp01(p) ==
    LET m == IF Less(Whole(1), p) THEN Whole(1) ELSE p
    IN  IF Less(Whole(0), m) THEN m ELSE Whole(0)

\* app.py 150-151
Progress(current_saved, goal) == Clamp01(Divide(current_saved, Or1(goal)))

\* app.py 152
Remaining(current_saved, goal) == Max(goal - current_saved, 0)

\* app.py 153-154
Happiness(current_saved, monthly_target) ==
    Clamp01(Divide(current_saved, Or1(monthly_target)))

\* savings_tracker.calculate_progress: a percentage, 0 for a goal of 0
calculate_progress(current_savings, savings_goal) ==
    IF savings_goal > 0 THEN Divide(current_savings * 100, savings_goal) ELSE Whole(0)

\* savings_tracker.calculate_distance_from_goal
calculate_distance_from_goal(current_savings, savings_goal) ==
    savings_goal - current_savings

AmountInputs == {0, 1, 1500, 3000, 6000, 7000}

CalcOff == [stage |-> "off"]

InitCalc ==
    \E g \in AmountInputs, mt \in AmountInputs, cs \in AmountInputs :
        calc = [stage |-> "inputs", goal |-> g, monthly_target |-> mt, current_saved |-> cs,
                progress |-> Whole(0), remaining |-> 0, happiness |-> Whole(0),
                percent |-> Whole(0), distance |-> 0]

\* app.py 150-154
CoreCalculations ==
    /\ calc.stage = "inputs"
    /\ calc' = [calc EXCEPT
                  !.stage = "page",
                  !.progress = Progress(calc.current_saved, calc.goal),
                  !.remaining = Remaining(calc.current_saved, calc.goal),
                  !.happiness = Happiness(calc.current_saved, calc.monthly_target)]
    /\ UNCHANGED <<sessionVars, raceVars, breakdown, remerge>>

\* savings_tracker.py 1-5 on the same inputs
TrackerHelpers ==
    /\ calc.stage = "page"
    /\ calc' = [calc EXCEPT
                  !.stage = "done",
                  !.percent = calculate_progress(calc.current_saved, calc.goal),
                  !.distance = calculate_distance_from_goal(calc.current_saved, calc.goal)]
    /\ UNCHANGED <<sessionVars, raceVars, breakdown, remerge>>

\* ------------------------------------------------ the allocation breakdown
\* n / d rounded to the nearest integer, ties to even (numpy's round)
RoundDiv(n, d) ==
    LET q == n \div d
        r == n % d
    IN  IF 2 * r < d THEN q
        ELSE IF 2 * r > d THEN q + 1
        ELSE IF q % 2 = 0 THEN q ELSE q + 1

\* (allocation / denominator * total_saved).round(2), in cents
Allocated(allocation, denominator, total_saved) ==
    RoundDiv(100 * allocation * total_saved, denominator)

\* the difference left unclipped (the fault of .clip(lower=0) dropped)
RemainingInCategoryUnclipped(allocation, allocated) == 100 * allocation - allocated

\* (allocation - allocated).clip(lower=0).round(2), in cents
RemainingInCategory(allocation, allocated) == Max(100 * allocation - allocated, 0)

\* app.py 117-123: the sidebar divides by (goal_val or 1)
SidebarBreakdown(allocation, goal_val, total_saved) ==
    LET allocated == Allocated(allocation, Or1(goal_val), total_saved)
    IN  [allocated |-> allocated, remaining |-> RemainingInCategory(allocation, allocated)]

\* app.py 255-257: the report divides by max(goal_val, 1)
ReportBreakdown(allocation, goal_val, total_saved) ==
    LET saved == Allocated(allocation, Max(goal_val, 1), total_saved)
    IN  [allocated |-> saved, remaining |-> RemainingInCategory(allocation, saved)]

\* amounts small enough for 100 * allocation * total_saved to stay an int
AllocationInputs == {0, 1, 250, 1000}
BreakdownGoalInputs == {0, 1, 3, 600, 1000}
TotalSavedInputs == {0, 1, 2, 500, 600, 1200}

BreakdownOff == [stage |-> "off"]

InitBreakdown ==
    \E a \in AllocationInputs, g \in BreakdownGoalInputs, t \in TotalSavedInputs :
        breakdown = [stage |-> "inputs", goal_allocation |-> a, goal_val |-> g,
                     total_saved |-> t,
                     sidebar |-> [allocated |-> 0, remaining |-> 0],
                     report |-> [allocated |-> 0, remaining |-> 0]]

\* the sidebar's table for the category
ComputeSidebar ==
    /\ breakdown.stage = "inputs"
    /\ breakdown' = [breakdown EXCEPT
                       !.stage = "sidebar",
                       !.sidebar = SidebarBreakdown(breakdown.goal_allocation,
                                                    breakdown.goal_val, breakdown.total_saved)]
    /\ UNCHANGED <<sessionVars, raceVars, calc, remerge>>

\* the PDF report's line for the category
ComputeReport ==
    /\ breakdown.stage = "sidebar"
    /\ breakdown' = [breakdown EXCEPT
                       !.stage = "done",
                       !.report = ReportBreakdown(breakdown.goal_allocation,
                                                  breakdown.goal_val, breakdown.total_saved)]
    /\ UNCHANGED <<sessionVars, raceVars, calc, remerge>>

\* ------------------------------------------------- the merge, re-applied
\* a ledger of daily savings over one more row than a partition needs, every
\* row stamped with the same date
DailyLedger ==
    [i \in 1..(SMALL_QUICKSORT + 2) |-> Row(1, DEFAULT_GOAL, DEFAULT_MONTHLY, 500 * i)]

LedgerInputs == SeqsUpTo(RowInputs, MaxRows) \cup {DailyLedger}
UploadRowInputs == SeqsUpTo(RowInputs, MaxRows)

RemergeOff == [stage |-> "off"]

InitMerge ==
    \E l \in LedgerInputs, x \in UploadRowInputs :
        remerge = [stage |-> "start", ledger |-> l, upload |-> x,
                   once |-> <<>>, twice |-> <<>>]

\* the file is uploaded: app.py 63-68
MergeOnce ==
    /\ UNCHANGED <<sessionVars, raceVars, calc, breakdown>>
    /\ remerge.stage = "start"
    /\ remerge' = [remerge EXCEPT !.stage = "once",
                                  !.once = Merge(remerge.ledger, remerge.upload)]

\* the same file is uploaded again into the merged ledger: app.py 63-68
MergeAgain ==
    /\ UNCHANGED <<sessionVars, raceVars, calc, breakdown>>
    /\ remerge.stage = "once"
    /\ remerge' = [remerge EXCEPT !.stage = "twice",
                                  !.twice = Merge(remerge.once, remerge.upload)]

NextMerge == MergeOnce \/ MergeAgain

\* ---------------------------------------------------------- specifications
vars == <<sessionVars, raceVars, calc, breakdown, remerge>>

SessionOff == SessionStart(FALSE)

\* one session, opened with or without a share id
Init ==
    /\ \E shared \in BOOLEAN : SessionStart(shared)
    /\ RaceOff /\ calc = CalcOff /\ breakdown = BreakdownOff /\ remerge = RemergeOff
Next == Interact \/ LoadShared \/ UploadHistory \/ Inputs \/ SaveEntry \/ ShowHistory
Spec == Init /\ [][Next]_vars

\* two sessions on one share id, their load and Save Entry steps interleaved
InitShared ==
    /\ InitRace
    /\ SessionOff /\ calc = CalcOff /\ breakdown = BreakdownOff /\ remerge = RemergeOff
NextShared == \E s \in Sessions : RaceInteract(s) \/ RaceLoad(s) \/ RaceSaveEntry(s)
SpecShared == InitShared /\ [][NextShared]_vars

\* the calculations on drawn inputs
InitMetrics ==
    /\ InitCalc
    /\ SessionOff /\ RaceOff /\ breakdown = BreakdownOff /\ remerge = RemergeOff
NextMetrics == CoreCalculations \/ TrackerHelpers
SpecMetrics == InitMetrics /\ [][NextMetrics]_vars

\* the breakdown on drawn inputs
InitAllocation ==
    /\ InitBreakdown
    /\ SessionOff /\ RaceOff /\ calc = CalcOff /\ remerge = RemergeOff
NextAllocation == ComputeSidebar \/ ComputeReport
SpecAllocation == InitAllocation /\ [][NextAllocation]_vars

\* the merge on drawn ledgers and uploads
InitRemerge ==
    /\ InitMerge
    /\ SessionOff /\ RaceOff /\ calc = CalcOff /\ breakdown = BreakdownOff
SpecMerge == InitRemerge /\ [][NextMerge]_vars

\* ------------------------------------------------------------------ claims
Last(q) == q[Len(q)]
Abs(x) == IF x < 0 THEN -x ELSE x
SortedByTimestamp(rows) ==
    \A i \in 1..Len(rows), j \in 1..Len(rows) :
        i < j => rows[i].timestamp <= rows[j].timestamp

\* C1: merging the same upload a second time leaves the merged ledger as it
\* was, row for row: merge(merge(L, X), X) = merge(L, X).
C1_MergeIdempotent ==
    remerge.stage = "twice" => remerge.twice = remerge.once

\* what C2 asks of a merge of `given` (the ledger followed by the upload)
MergedAsClaimed(given, merged) ==
    /\ SortedByTimestamp(merged)
    /\ \A i \in 1..Len(merged), j \in 1..Len(merged) :
          i # j => DedupKey(merged[i]) # DedupKey(merged[j])
    /\ \A k \in 1..Len(given) :
          \E i \in 1..Len(merged) : DedupKey(merged[i]) = DedupKey(given[k])
    /\ \A i \in 1..Len(merged) :
          \E k \in 1..Len(given) :
              /\ given[k] = merged[i]
              /\ \A l \in (k+1)..Len(given) : DedupKey(given[l]) # DedupKey(given[k])

\* C2: a merged ledger is sorted ascending by timestamp, holds every key of
\* the inputs once, and for each key holds the row that came last in the
\* ledger followed by the upload.
C2_MergeSortedDeduped ==
    /\ remerge.stage \in {"once", "twice"} =>
          MergedAsClaimed(Concat(remerge.ledger, remerge.upload), remerge.once)
    /\ remerge.stage = "twice" =>
          MergedAsClaimed(Concat(remerge.once, remerge.upload), remerge.twice)

\* C2's case: the inputs are out of order and hold one key twice, with
\* different goals, in the ledger and in the upload
C2_Witness ==
    /\ remerge.stage = "once"
    /\ ~SortedByTimestamp(Concat(remerge.ledger, remerge.upload))
    /\ \E i \in 1..Len(remerge.ledger), k \in 1..Len(remerge.upload) :
          /\ DedupKey(remerge.ledger[i]) = DedupKey(remerge.upload[k])
          /\ remerge.ledger[i].goal # remerge.upload[k].goal
    /\ Len(remerge.once) >= 2

\* C3: an upload that cannot be read (a broken line, no timestamp column)
\* ends in the merge-failed message and leaves the session ledger as it was
\* when the upload block began.
C3_FailedUploadKeepsLedger ==
    [][(pc = "upload" /\ uploaded_hist # NoUpload /\ ~ReadCsv(uploaded_hist).ok)
         => (status' = "merge_failed" /\ history' = history)]_vars

\* C3's case: a failed upload into a ledger that holds rows, the failed file
\* holding rows too
C3_Witness ==
    /\ pc = "inputs"
    /\ status = "merge_failed"
    /\ history # <<>>
    /\ uploaded_hist # NoUpload /\ uploaded_hist.lines # <<>>

\* the reference fraction of the specification: clamp(saved / base, 0, 1)
\* for base > 0, and 0 for base = 0
ReferenceFraction(saved, base) ==
    IF base > 0 THEN Clamp01(Divide(saved, base)) ELSE Whole(0)

\* C4: the page's progress and happiness fractions equal the reference
\* definition (0 when the goal, or the monthly target, is 0) and lie in [0,1].
C4_FractionsMatchReference ==
    calc.stage \in {"page", "done"} =>
        /\ Same(calc.progress, ReferenceFraction(calc.current_saved, calc.goal))
        /\ Same(calc.happiness, ReferenceFraction(calc.current_saved, calc.monthly_target))
        /\ ~Less(calc.progress, Whole(0)) /\ ~Less(Whole(1), calc.progress)
        /\ ~Less(calc.happiness, Whole(0)) /\ ~Less(Whole(1), calc.happiness)

\* C5: the remaining-to-goal amount is max(goal - currentSaved, 0), never
\* negative, both on the page and from calculate_distance_from_goal.
C5_RemainingNeverNegative ==
    calc.stage = "done" =>
        /\ calc.remaining = Max(calc.goal - calc.current_saved, 0)
        /\ calc.distance = Max(calc.goal - calc.current_saved, 0)
        /\ calc.remaining >= 0 /\ calc.distance >= 0

\* saved_so_far + remaining_in_category against an amount, within one cent
WithinCent(b, cents) == Abs(b.allocated + b.remaining - cents) <= 1

\* C6 as stated: in both breakdowns saved_so_far + remaining_in_category is
\* the goal allocation, within 0.01, whatever the total saved.
C6_BreakdownSumsToAllocation ==
    /\ breakdown.stage \in {"sidebar", "done"} =>
          WithinCent(breakdown.sidebar, 100 * breakdown.goal_allocation)
    /\ breakdown.stage = "done" =>
          WithinCent(breakdown.report, 100 * breakdown.goal_allocation)

\* what C6 amended asks of one breakdown
SumsAsAmended(b) ==
    /\ WithinCent(b, Max(100 * breakdown.goal_allocation, b.allocated))
    /\ breakdown.total_saved <= Max(breakdown.goal_val, 1) =>
          WithinCent(b, 100 * breakdown.goal_allocation)

\* C6 amended: saved_so_far + remaining_in_category is the larger of the
\* goal allocation and saved_so_far, within 0.01; it is the goal allocation
\* whenever the total saved is at most max(goal, 1).
C6_BreakdownSumsWhenNotOversaved ==
    /\ breakdown.stage \in {"sidebar", "done"} => SumsAsAmended(breakdown.sidebar)
    /\ breakdown.stage = "done" => SumsAsAmended(breakdown.report)

\* C6's case: both breakdowns computed for a category of which part is saved,
\* and for one whose share of the savings exceeds its allocation
C6_Witness ==
    /\ breakdown.stage = "done"
    /\ breakdown.goal_allocation > 0
    /\ breakdown.total_saved <= Max(breakdown.goal_val, 1)
    /\ breakdown.report.allocated > 0 /\ breakdown.report.remaining > 0
    /\ breakdown.report.allocated % 100 # 0

\* the running totals in timestamp order: for each row, current_saved summed
\* over the rows dated before it and those of its date not after it
ChronologicalTotals(hist) ==
    LET Before(j, i) ==
            \/ hist[j].timestamp < hist[i].timestamp
            \/ hist[j].timestamp = hist[i].timestamp /\ j <= i
        RECURSIVE Sum(_, _)
        Sum(i, j) == IF j = 0 THEN 0
                     ELSE Sum(i, j-1) + (IF Before(j, i) THEN hist[j].current_saved ELSE 0)
    IN  [i \in 1..Len(hist) |-> Sum(i, Len(hist))]

\* C7: after any appends, merges and replaces, the running totals shown are
\* the prefix sums of current_saved in ascending timestamp order.
C7_CumulativeIsChronological ==
    pc = "idle" => cumulative_saved = ChronologicalTotals(history)

\* C8: the defaults seeding the form are 6000 and 3000 for an empty ledger,
\* else the goal and monthly_target of the entry with the greatest timestamp.
C8_DefaultsFromLatestEntry ==
    pc = "save" =>
        IF history = <<>>
        THEN default_goal = DEFAULT_GOAL /\ default_monthly = DEFAULT_MONTHLY
        ELSE \E i \in 1..Len(history) :
                /\ \A j \in 1..Len(history) : history[j].timestamp <= history[i].timestamp
                /\ default_goal = history[i].goal
                /\ default_monthly = history[i].monthly_target

\* C9: once Update History has stored the edited table, the session ledger
\* is that table until the next append, merge or replace, with or without a
\* share id.
C9_ReplaceSticks ==
    edited.held => history = edited.table

\* C10: the shared file holds the in-memory ledger of the session that wrote
\* last, and none of the rows written since that session last loaded: with
\* both sessions loaded before either writes, the earlier writer's row is
\* gone after the later write.
C10_LastWriteWins ==
    writes # <<>> =>
        /\ shared_file = ToCsv(histories[Last(writes).by])
        /\ \A i \in 1..(Len(writes) - 1) :
              i > Last(writes).seen =>
                  \A k \in 1..Len(shared_file.lines) :
                      shared_file.lines[k] # writes[i].entry

\* C10's case: both sessions loaded before either wrote, and both have written
C10_Witness ==
    /\ Len(writes) = 2
    /\ writes[1].by # writes[2].by
    /\ writes[2].seen = 0
    /\ \A s \in Sessions : at[s] = "idle"

=============================================================================
